---- MODULE Spec2Model ----
(***************************************************************************)
(* Model of the N-body core of src/main.py: PlanetObject (force, update,   *)
(* collide) and GravSystem (_add_obj, update); of the Simulator that       *)
(* drives it from the clock and the control panel; and of to_polar.        *)
(*                                                                         *)
(* Numbers.  The program computes in floats; the model computes on an      *)
(* integer grid.  A float division is quantised towards zero (Quot), and   *)
(* math.hypot is quantised downwards where its value is used (r**3) and    *)
(* exact where it is only compared (hypot_le, hypot_ge).  An angle is      *)
(* quantised to the nearest multiple of AngleUnit degrees, as a float      *)
(* operation rounds to the nearest float.  The time step is drawn from     *)
(* even numbers so that dt/2 is exact.  float ** int raises OverflowError  *)
(* above the largest float; FloatMax is that limit, scaled.                *)
(*                                                                         *)
(* Lists.  system.all, system.collided and system.runaway are sequences of *)
(* body identities (a body's identity is its index in `bodies`, the order  *)
(* of construction).  A Python `for` over a list reads the live list by    *)
(* index, so the loops below carry the number of items already yielded.    *)
(***************************************************************************)
EXTENDS Integers, Sequences, FiniteSets, TLC

\* ------------------------------------------------------------- bounds
MaxInit == 3          \* bodies constructed by the caller
MaxCalls == 2         \* GravSystem.update calls made by the caller
FloatMax == 100       \* r**3 above this raises OverflowError
MaxRuns == 2          \* GravityAppUI.run calls
MaxTicks == 3         \* Simulator.calculate_loop calls per run
MaxEvents == 2        \* calculate_loop events scheduled on the clock at once
MaxView == 1          \* view steps away from the normal view
MaxCoord == 5         \* largest coordinate passed to to_polar

\* the time steps passed to GravSystem.update (even: dt/2 is exact)
Deltas == {2}
\* the arguments passed to the PlanetObject constructor (bodies start at rest
\* on the x axis with radius 1; gravity and the overlap rule set them moving)
Masses == {-2, 1}
\* the same with a body of no mass (the object editor accepts any number)
ZeroMasses == {-2, 0}
Xs == {0, 3, 5}
Trails == {1, 2}
TpDists == {0, 1}

\* ------------------------------------------------- GravSystem settings
G == 10
bound == 4
rf == 1
vf == 1
r_const == 3
autoradius == TRUE

\* ---------------------------------------------------- animation settings
move_step == 1        \* self.ms
turn_step == 1        \* self.ts
ini_x == 0
ini_y == 0
ini_r == 0

VARIABLES
    bodies,      \* every PlanetObject constructed, in order of construction
    all,         \* system.all
    collided,    \* system.collided
    runaway,     \* system.runaway
    totalpts,    \* system.totalpts
    calc_num,    \* system.calc_num
    simtime,     \* system.simtime
    collisions,  \* system.collisions
    tpdist,      \* system.tpdist
    \* history of the calls, read by the properties only
    calls,       \* GravSystem.update calls made so far
    sumdelta,    \* sum of the deltas passed to them
    raised,      \* the exception the last call let out, or "none"
    startAll,    \* system.all when the last call started
    nStart,      \* number of bodies constructed when the last call started
    upd,         \* bodies PlanetObject.update was invoked on in the last call
    kicks,       \* velocity kicks applied in the last call
    ovf,         \* bodies whose update caught an OverflowError in the last call
    merges,      \* the PlanetObject.collide calls of the last call
    overlaps,    \* the PlanetObject.force calls of the last call that divided
                 \* by zero
    trailed,     \* the trail steps (lines 172-179) run in the last call
    built,       \* number of bodies the caller constructed
    snap,        \* per body: its kinematic state when it left system.all, and
                 \* the number of the call in which it left
    \* the Simulator
    active,      \* self.active
    paused,      \* self.paused
    infovis,     \* self.infovis
    xpos,        \* self.xpos
    ypos,        \* self.ypos
    scale,       \* self.scatter.scale, as the power of the zoom step zs
    rotation,    \* self.scatter.rotation
    calc_event,  \* self.calc_event: "None" or "ClockEvent"
    draw_event,  \* self.draw_event: "None" or "ClockEvent"
    ppbtn,       \* self.ppbtn.state, as the handlers set it (the toggle is
                 \* bound to playpause in the .kv file)
    system,      \* self.system: "None" or "GravSystem" (the variables above)
    space,       \* self.space: "None" or "Widget"
    clock,       \* the kivy Clock: per callback, the number of its events
                 \* that are scheduled
    runs,        \* GravityAppUI.run calls made so far
    \* to_polar
    px,          \* the argument x
    py,          \* the argument y
    polar        \* the tuple returned, empty before the call returns

gravvars == <<bodies, all, collided, runaway, totalpts, calc_num, simtime,
              collisions, tpdist, calls, sumdelta, raised, startAll, nStart,
              upd, kicks, ovf, merges, overlaps, trailed, built, snap>>

simvars == <<active, paused, infovis, xpos, ypos, scale, rotation,
             calc_event, draw_event, ppbtn, system, space, clock, runs>>

polarvars == <<px, py, polar>>

vars == <<gravvars, simvars, polarvars>>

\* ------------------------------------------------------------ numbers
Abs(n) == IF n < 0 THEN -n ELSE n

Max(a, b) == IF a >= b THEN a ELSE b

Sign(n) == IF n < 0 THEN -1 ELSE 1

\* a / b on the grid, rounded towards zero (b # 0)
Quot(a, b) == Sign(a) * Sign(b) * (Abs(a) \div Abs(b))

Isqrt(n) == CHOOSE k \in 0..n : k * k <= n /\ (k + 1) * (k + 1) > n

\* math.hypot(dx, dy), rounded down to the grid
hypot(dx, dy) == Isqrt(dx * dx + dy * dy)

\* math.hypot(dx, dy) <= k, exactly
hypot_le(dx, dy, k) == k >= 0 /\ dx * dx + dy * dy <= k * k

\* math.hypot(dx, dy) >= k, exactly
hypot_ge(dx, dy, k) == k <= 0 \/ dx * dx + dy * dy >= k * k

\* round(math.sqrt(m) / c) for m >= 0 and odd c > 0 (no ties occur)
round_sqrt_div(m, c) ==
    CHOOSE k \in 0..(m + 1) :
        /\ (k = 0 \/ (2 * k - 1) * (2 * k - 1) * c * c <= 4 * m)
        /\ (2 * k + 1) * (2 * k + 1) * c * c > 4 * m

\* -------------------------------------------------------------- lists
Range(s) == {s[i] : i \in 1..Len(s)}

Contains(s, e) == \E i \in 1..Len(s) : s[i] = e

Count(s, e) == Cardinality({i \in 1..Len(s) : s[i] = e})

\* list.remove(e) on a list that contains e: the first occurrence goes
Remove(s, e) ==
    LET i == CHOOSE j \in 1..Len(s) : s[j] = e /\ \A k \in 1..(j - 1) : s[k] # e
    IN SubSeq(s, 1, i - 1) \o SubSeq(s, i + 1, Len(s))

\* ------------------------------------------------------ the system state
\* The operators below work on a record S of the system's mutable state:
\* bodies, all, collided, runaway, totalpts, the history (upd, kicks, ovf,
\* merges, overlaps, trailed, snap)
\* and exc, the exception in flight ("none" when there is none).
Raise(S, e) == [S EXCEPT !.exc = e]

\* the kinematic state of a body
Kin(o) == [x |-> o.x, y |-> o.y, vx |-> o.vx, vy |-> o.vy,
           ax |-> o.ax, ay |-> o.ay, positions |-> o.positions]

\* history: body o of S as it is now, leaving system.all in call S.call
Leaving(S, o) == {[kin |-> Kin(S.bodies[o]), call |-> S.call]}

\* GravSystem._add_obj
add_obj(S, o) == [S EXCEPT !.all = Append(@, o)]

\* PlanetObject.__init__
PlanetObject(S, m, x, y, vx, vy, radius, trail) ==
    LET o == [mass |-> Abs(m), x |-> x, y |-> y, vx |-> vx, vy |-> vy,
              ax |-> 0, ay |-> 0, radius |-> radius, trail |-> trail,
              positions |-> << <<x, y>>, <<x, y>> >>,
              has_collided |-> FALSE]
    IN add_obj([S EXCEPT !.bodies = Append(@, o), !.snap = Append(@, {})],
               Len(S.bodies) + 1)

\* PlanetObject.update, lines 183-184 and 193-194:
\* self.system.all.remove(self); self.system.runaway.append(self)
\* (list.remove raises ValueError when self is not in the list)
\* faulty variant: all.remove(self) forgotten
escape_kept(S, self) ==
    IF ~Contains(S.all, self) THEN Raise(S, "ValueError")
    ELSE [S EXCEPT !.runaway = Append(@, self),
                   !.snap[self] = Leaving(S, self)]

\* faulty variant: `if self in all: all.remove(self)`, which cannot raise
escape_unchecked(S, self) ==
    [S EXCEPT !.all = IF Contains(@, self) THEN Remove(@, self) ELSE @,
              !.runaway = Append(@, self),
              !.snap[self] = Leaving(S, self)]

\* faulty variant: the body is removed from system.all and listed nowhere
escape_dropped(S, self) ==
    IF ~Contains(S.all, self) THEN Raise(S, "ValueError")
    ELSE [S EXCEPT !.all = Remove(@, self),
                   !.snap[self] = Leaving(S, self)]

\* the code
escape(S, self) ==
    IF ~Contains(S.all, self) THEN Raise(S, "ValueError")
    ELSE [S EXCEPT !.all = Remove(@, self),
                   !.runaway = Append(@, self),
                   !.snap[self] = Leaving(S, self)]

\* PlanetObject.collide, lines 228-234: both bodies are flagged and moved
\* from system.all to system.collided
\* faulty variant: other.system.all.remove(other) forgotten
to_collided_keep_other(S, self, other) ==
    LET S1 == [S EXCEPT !.bodies[self].has_collided = TRUE,
                        !.bodies[other].has_collided = TRUE]
    IN IF ~Contains(S1.all, self) THEN Raise(S1, "ValueError")
       ELSE [S1 EXCEPT !.all = Remove(@, self),
                       !.collided = @ \o <<self, other>>,
                       !.snap[self] = Leaving(S1, self),
                       !.snap[other] = Leaving(S1, other)]

\* faulty variant: `other.has_collided = True` forgotten
to_collided_unflagged(S, self, other) ==
    LET S1 == [S EXCEPT !.bodies[self].has_collided = TRUE]
    IN IF ~Contains(S1.all, self) \/ ~Contains(S1.all, other)
       THEN Raise(S1, "ValueError")
       ELSE [S1 EXCEPT !.all = Remove(Remove(@, self), other),
                       !.collided = @ \o <<self, other>>,
                       !.snap[self] = Leaving(S1, self),
                       !.snap[other] = Leaving(S1, other)]

\* faulty variant: only `self` is appended to system.collided
to_collided_self_only(S, self, other) ==
    LET S1 == [S EXCEPT !.bodies[self].has_collided = TRUE,
                        !.bodies[other].has_collided = TRUE]
    IN IF ~Contains(S1.all, self) \/ ~Contains(S1.all, other)
       THEN Raise(S1, "ValueError")
       ELSE [S1 EXCEPT !.all = Remove(Remove(@, self), other),
                       !.collided = Append(@, self),
                       !.snap[self] = Leaving(S1, self),
                       !.snap[other] = Leaving(S1, other)]

\* the code
to_collided(S, self, other) ==
    LET S1 == [S EXCEPT !.bodies[self].has_collided = TRUE,
                        !.bodies[other].has_collided = TRUE]
    IN IF ~Contains(S1.all, self) \/ ~Contains(S1.all, other)
       THEN Raise(S1, "ValueError")
       ELSE [S1 EXCEPT !.all = Remove(Remove(@, self), other),
                       !.collided = @ \o <<self, other>>,
                       !.snap[self] = Leaving(S1, self),
                       !.snap[other] = Leaving(S1, other)]

\* PlanetObject.collide, lines 245-246: the merged body is constructed
\* (unless an exception is in flight)
new_body(S, m, x, y, vx, vy, radius, trail) ==
    IF S.exc # "none" THEN S
    ELSE PlanetObject(S, m, x, y, vx, vy, radius, trail)

\* PlanetObject.collide, line 212
\* faulty variant: the heavier body's mass
merged_mass_heavier(ma, mb) == Max(ma, mb)

\* the code
merged_mass(ma, mb) == ma + mb

\* PlanetObject.collide, lines 213-214: one coordinate of the centre of mass
\* of masses ma at pa and mb at pb (new_m # 0)
\* faulty variant: the midpoint, whatever the masses
centre_of_mass_midpoint(ma, pa, mb, pb, new_m) == Quot(pa + pb, 2)

\* the code
centre_of_mass(ma, pa, mb, pb, new_m) == Quot(ma * pa + mb * pb, new_m)

\* PlanetObject.collide, lines 215-216: one component of the velocity of the
\* merged body (new_m # 0)
\* faulty variant: the mean velocity, whatever the masses
merged_velocity_mean(ma, va, mb, vb, new_m) == Quot(vf * (va + vb), 2)

\* the code
merged_velocity(ma, va, mb, vb, new_m) ==
    Quot(vf * (ma * va + mb * vb), new_m)

\* history: the call collide(self, other) that found the system as S and
\* left it as T; `by` is the PlanetObject.update invocation that made the
\* call, `made` the body it constructed, as constructed
merge_logged(T, S, self, other) ==
    [T EXCEPT !.merges =
        Append(@, [self |-> self, other |-> other,
                   a |-> S.bodies[self], b |-> S.bodies[other],
                   selfIn |-> Contains(S.all, self),
                   otherIn |-> Contains(S.all, other),
                   by |-> Len(S.upd),
                   new |-> IF Len(T.bodies) > Len(S.bodies)
                           THEN Len(T.bodies) ELSE 0,
                   made |-> IF Len(T.bodies) > Len(S.bodies)
                            THEN <<T.bodies[Len(T.bodies)]>> ELSE <<>>,
                   exc |-> T.exc])]

\* PlanetObject.collide, lines 212-246 (a float division by 0.0 raises
\* ZeroDivisionError)
merge(S, self, other, a, b, new_m) ==
    IF new_m = 0 THEN Raise(S, "ZeroDivisionError")
    ELSE new_body(to_collided(S, self, other),
                  new_m,
                  centre_of_mass(a.mass, a.x, b.mass, b.x, new_m),
                  centre_of_mass(a.mass, a.y, b.mass, b.y, new_m),
                  merged_velocity(a.mass, a.vx, b.mass, b.vx, new_m),
                  merged_velocity(a.mass, a.vy, b.mass, b.vy, new_m),
                  IF autoradius THEN Max(1, round_sqrt_div(new_m, r_const))
                  ELSE Max(a.radius, b.radius),
                  Max(a.trail, b.trail))

\* PlanetObject.collide
collide(S, self, other) ==
    merge_logged(merge(S, self, other, S.bodies[self], S.bodies[other],
                       merged_mass(S.bodies[self].mass, S.bodies[other].mass)),
                 S, self, other)

\* PlanetObject.force, lines 144-147: coinciding bodies with one velocity
\* are shifted
\* faulty variant: `other.vy += 1` forgotten
shift_self_only(S, self, other) ==
    IF S.bodies[self].vx - S.bodies[other].vx = 0
       /\ S.bodies[self].vy - S.bodies[other].vy = 0
    THEN [S EXCEPT !.bodies[self].vx = @ + 1]
    ELSE S

\* the code
shift(S, self, other) ==
    IF S.bodies[self].vx - S.bodies[other].vx = 0
       /\ S.bodies[self].vy - S.bodies[other].vy = 0
    THEN [S EXCEPT !.bodies[self].vx = @ + 1,
                   !.bodies[other].vy = @ + 1]
    ELSE S

\* history: the call force(self, other) that found the system as S, divided
\* by zero and returned f
overlap_logged(f, S, self, other) ==
    [f EXCEPT !.S.overlaps =
        Append(@, [self |-> self, other |-> other,
                   a |-> S.bodies[self], b |-> S.bodies[other],
                   a2 |-> f.S.bodies[self], b2 |-> f.S.bodies[other],
                   fx |-> f.fx, fy |-> f.fy, exc |-> f.S.exc])]

\* PlanetObject.force, lines 131-134: bodies a and b are to merge
\* faulty variant: has_collided is not looked at
colliding_again(a, b) ==
    /\ collisions
    /\ hypot_le(a.x - b.x, a.y - b.y, rf * (a.radius + b.radius))

\* the code
colliding(a, b) ==
    /\ collisions
    /\ hypot_le(a.x - b.x, a.y - b.y, rf * (a.radius + b.radius))
    /\ ~a.has_collided
    /\ ~b.has_collided

\* PlanetObject.force: the state it leaves and the force it returns
force(S, self, other) ==
    LET a == S.bodies[self]
        b == S.bodies[other]
        dx == a.x - b.x
        dy == a.y - b.y
        r == hypot(dx, dy)
    IN IF colliding(a, b)
       THEN [S |-> collide(S, self, other), fx |-> 0, fy |-> 0]
       ELSE IF r = 0
       THEN \* ZeroDivisionError, caught
            overlap_logged([S |-> shift(S, self, other), fx |-> 0, fy |-> 0],
                           S, self, other)
       ELSE IF r * r * r > FloatMax
       THEN [S |-> Raise(S, "OverflowError"), fx |-> 0, fy |-> 0]
       ELSE [S |-> S,
             fx |-> (IF b.x > a.x THEN 1 ELSE -1)
                      * Quot(G * b.mass * Abs(dx), r * r * r),
             fy |-> (IF b.y > a.y THEN 1 ELSE -1)
                      * Quot(G * b.mass * Abs(dy), r * r * r)]

\* PlanetObject.update, lines 157-162: `for body in self.system.all`, with
\* i the number of items the list iterator has yielded; force_next adds
\* what force returned (f) to the net acceleration and goes on
RECURSIVE force_loop(_, _, _, _, _)
force_next(f, self, i, net_ax, net_ay) ==
    force_loop(f.S, self, i, net_ax + f.fx, net_ay + f.fy)

force_loop(S, self, i, net_ax, net_ay) ==
    IF S.exc # "none" \/ i >= Len(S.all)
    THEN [S |-> S, net_ax |-> net_ax, net_ay |-> net_ay]
    ELSE IF S.all[i + 1] = self
         THEN force_loop(S, self, i + 1, net_ax, net_ay)
         ELSE force_next(force(S, self, S.all[i + 1]), self, i + 1,
                         net_ax, net_ay)

\* PlanetObject.update, lines 165-170: the velocity kick
kick(dt, a) == IF calc_num = 0 THEN Quot(dt, 2) * a ELSE dt * a

\* PlanetObject.update, lines 172-179: the trail; lines 173-176 append a
\* point, lines 177-179 drop the oldest one
\* faulty variant: a point is recorded only beyond tpdist
trail_append_beyond(S, self) ==
    LET o == S.bodies[self]
        last == o.positions[Len(o.positions)]
    IN IF o.trail = 0 THEN S
       ELSE IF ~hypot_le(o.x - last[1], o.y - last[2], tpdist)
            THEN [S EXCEPT !.bodies[self].positions = Append(@, <<o.x, o.y>>),
                           !.totalpts = @ + 1]
            ELSE S

\* the code
trail_append(S, self) ==
    LET o == S.bodies[self]
        last == o.positions[Len(o.positions)]
    IN IF o.trail = 0 THEN S
       ELSE IF hypot_ge(o.x - last[1], o.y - last[2], tpdist)
            THEN [S EXCEPT !.bodies[self].positions = Append(@, <<o.x, o.y>>),
                           !.totalpts = @ + 1]
            ELSE S


trail_pop(S, self) ==
    IF S.bodies[self].trail >= 0
       /\ Len(S.bodies[self].positions) > S.bodies[self].trail
    THEN [S EXCEPT !.bodies[self].positions = Tail(@),
                   !.totalpts = @ - 1]
    ELSE S

\* history: the trail step of self that found the system as S and has left
\* it as T before dropping a point; (dx, dy) is how far self was from its
\* last trail point
trail_logged(T, S, self) ==
    [T EXCEPT !.trailed =
        Append(@, [id |-> self,
                   trail |-> S.bodies[self].trail,
                   dx |-> S.bodies[self].x
                          - S.bodies[self].positions[
                                Len(S.bodies[self].positions)][1],
                   dy |-> S.bodies[self].y
                          - S.bodies[self].positions[
                                Len(S.bodies[self].positions)][2],
                   appended |-> T.bodies[self].positions
                                # S.bodies[self].positions,
                   counted |-> T.totalpts - S.totalpts])]

\* faulty variant: the oldest point is never dropped
trail_step_nopop(S, self) ==
    IF S.bodies[self].trail = 0 THEN S ELSE trail_append(S, self)

trail_step(S, self) ==
    IF S.bodies[self].trail = 0 THEN trail_logged(S, S, self)
    ELSE trail_pop(trail_logged(trail_append(S, self), S, self), self)

\* PlanetObject.update, lines 163-170: the net acceleration is stored and
\* the velocity kicked
kick_step(S, self, dt, net_ax, net_ay) ==
    [S EXCEPT !.bodies[self].ax = net_ax,
              !.bodies[self].ay = net_ay,
              !.bodies[self].vx = @ + kick(dt, net_ax),
              !.bodies[self].vy = @ + kick(dt, net_ay),
              !.kicks = Append(@, [id |-> self, dt |-> dt,
                                   ax |-> net_ax, ay |-> net_ay,
                                   dvx |-> kick(dt, net_ax),
                                   dvy |-> kick(dt, net_ay)])]

\* PlanetObject.update, lines 180-181: the position step
move(S, self, dt) ==
    [S EXCEPT !.bodies[self].x = @ + dt * S.bodies[self].vx,
              !.bodies[self].y = @ + dt * S.bodies[self].vy]

\* PlanetObject.update, lines 182-189: the boundary check
check_bound(S, self) ==
    IF Abs(S.bodies[self].x) > bound \/ Abs(S.bodies[self].y) > bound
    THEN escape(S, self)
    ELSE S

\* PlanetObject.update, lines 163-196: what follows the force loop, whose
\* outcome is L
after_forces(L, self, dt) ==
    IF L.S.exc = "OverflowError"
    THEN \* except OverflowError
         escape([L.S EXCEPT !.exc = "none", !.ovf = Append(@, self)], self)
    ELSE IF L.S.exc # "none" THEN L.S
    ELSE check_bound(
             move(trail_step(kick_step(L.S, self, dt, L.net_ax, L.net_ay),
                             self),
                  self, dt),
             self)

\* PlanetObject.update
update(S, self, dt) == after_forces(force_loop(S, self, 0, 0, 0), self, dt)

\* GravSystem.update, lines 310-311: `for p in self.all`, with i the number
\* of items the list iterator has yielded
RECURSIVE pass_loop(_, _, _)
pass_loop(S, i, delta) ==
    IF S.exc # "none" \/ i >= Len(S.all) THEN S
    ELSE pass_loop(update([S EXCEPT !.upd = Append(@, S.all[i + 1])],
                          S.all[i + 1], delta),
                   i + 1, delta)

\* ------------------------------------------------------------- actions
TheSystem == [bodies |-> bodies, all |-> all, collided |-> collided,
              runaway |-> runaway, totalpts |-> totalpts, snap |-> snap,
              upd |-> <<>>, kicks |-> <<>>, ovf |-> <<>>, merges |-> <<>>,
              overlaps |-> <<>>, trailed |-> <<>>, call |-> calls + 1,
              exc |-> "none"]

\* GravSystem.__init__
GravSystem ==
    /\ bodies = <<>>
    /\ all = <<>>
    /\ collided = <<>>
    /\ runaway = <<>>
    /\ totalpts = 0
    /\ calc_num = 0
    /\ simtime = 0
    /\ collisions \in BOOLEAN
    /\ tpdist \in TpDists
    /\ calls = 0
    /\ sumdelta = 0
    /\ raised = "none"
    /\ startAll = <<>>
    /\ nStart = 0
    /\ upd = <<>>
    /\ kicks = <<>>
    /\ ovf = <<>>
    /\ merges = <<>>
    /\ overlaps = <<>>
    /\ trailed = <<>>
    /\ built = 0
    /\ snap = <<>>

\* Simulator: the class attributes and __init__; nothing is on the clock
Simulator ==
    /\ active = FALSE
    /\ paused = FALSE
    /\ infovis = FALSE
    /\ xpos = 0
    /\ ypos = 0
    /\ scale = 0
    /\ rotation = 0
    /\ calc_event = "None"
    /\ draw_event = "None"
    /\ ppbtn = "normal"
    /\ system = "None"
    /\ space = "None"
    /\ clock = [calculate_loop |-> 0, graphic_loop |-> 0,
                beginvieweradjust |-> 0]
    /\ runs = 0

\* no call of to_polar is under way
NoPolar ==
    /\ px = 0
    /\ py = 0
    /\ polar = <<>>

Init == GravSystem /\ Simulator /\ NoPolar

\* the system as the constructor left it (S)
Constructed(S) ==
    /\ bodies' = S.bodies
    /\ all' = S.all
    /\ snap' = S.snap
    /\ built' = Len(S.bodies)

\* GravSystem.update, lines 312-313: the system as the pass left it (S); the
\* counters move unless an exception ended the pass
Returned(S, delta) ==
    /\ bodies' = S.bodies
    /\ all' = S.all
    /\ collided' = S.collided
    /\ runaway' = S.runaway
    /\ totalpts' = S.totalpts
    /\ snap' = S.snap
    /\ upd' = S.upd
    /\ kicks' = S.kicks
    /\ ovf' = S.ovf
    /\ merges' = S.merges
    /\ overlaps' = S.overlaps
    /\ trailed' = S.trailed
    /\ raised' = S.exc
    /\ calc_num' = IF S.exc = "none" THEN calc_num + 1 ELSE calc_num
    /\ simtime' = IF S.exc = "none" THEN simtime + delta ELSE simtime
    /\ sumdelta' = sumdelta + delta

\* the caller constructs a PlanetObject for the system (GravityAppUI.run
\* constructs the bodies before the simulation begins)
ConstructFrom(ms) ==
    /\ calls = 0
    /\ Len(bodies) < MaxInit
    /\ \E m \in ms, x \in Xs, trail \in Trails :
         Constructed(PlanetObject(TheSystem, m, x, 0, 0, 0, 1, trail))
    /\ UNCHANGED <<collided, runaway, totalpts, calc_num, simtime, collisions,
                   tpdist, calls, sumdelta, raised, startAll, nStart, upd,
                   kicks, ovf, merges, overlaps, trailed, simvars, polarvars>>

Construct == ConstructFrom(Masses)

ConstructZero == ConstructFrom(ZeroMasses)

\* GravSystem.update(delta)
GravSystem_update ==
    /\ \E delta \in Deltas : Returned(pass_loop(TheSystem, 0, delta), delta)
    /\ calls' = calls + 1
    /\ startAll' = all
    /\ nStart' = Len(bodies)
    /\ UNCHANGED <<collisions, tpdist, built>>

\* GravSystem.update(delta), called by a caller that catches whatever the
\* call raises and goes on calling (as Simulator.calculate_loop does)
UpdateCall ==
    /\ calls < MaxCalls
    /\ GravSystem_update
    /\ UNCHANGED <<simvars, polarvars>>

Next == Construct \/ UpdateCall

Spec == Init /\ [][Next]_vars

\* the same program, fed bodies of no mass as well
NextZero == ConstructZero \/ UpdateCall

SpecZero == Init /\ [][NextZero]_vars

\* ---------------------------------------------------------- Simulator
\* the lists of planets GravityAppUI.processinput hands to run, with the
\* settings of the system built for them: a body crossing the bounded
\* square in three steps, a body that leaves it in the first step, a pair
\* that attracts, and no body at all
Scenarios ==
    { [planets |-> << [m |-> 1, x |-> -3, vx |-> 1, trail |-> -1] >>,
       collision |-> TRUE, tpdist |-> 0],
      [planets |-> << [m |-> 1, x |-> 0, vx |-> 0, trail |-> -1],
                      [m |-> 1, x |-> -3, vx |-> 1, trail |-> 0] >>,
       collision |-> FALSE, tpdist |-> 0],
      [planets |-> << [m |-> 1, x |-> 3, vx |-> 1, trail |-> 1] >>,
       collision |-> TRUE, tpdist |-> 1],
      [planets |-> << [m |-> 1, x |-> 0, vx |-> 0, trail |-> 2],
                      [m |-> 1, x |-> 3, vx |-> 0, trail |-> -1] >>,
       collision |-> TRUE, tpdist |-> 1],
      [planets |-> << >>, collision |-> TRUE, tpdist |-> 1] }

\* the positions the viewer can be dragged to (scatter transform, rounded)
Drags == {<<move_step, 0>>, <<0, -move_step>>}

\* the Simulator object
TheSimulator ==
    [active |-> active, paused |-> paused, infovis |-> infovis,
     xpos |-> xpos, ypos |-> ypos, scale |-> scale, rotation |-> rotation,
     calc_event |-> calc_event, draw_event |-> draw_event, ppbtn |-> ppbtn,
     system |-> system, space |-> space, clock |-> clock]

\* the Simulator object as a handler left it (M)
Handled(M) ==
    /\ active' = M.active
    /\ paused' = M.paused
    /\ infovis' = M.infovis
    /\ xpos' = M.xpos
    /\ ypos' = M.ypos
    /\ scale' = M.scale
    /\ rotation' = M.rotation
    /\ calc_event' = M.calc_event
    /\ draw_event' = M.draw_event
    /\ ppbtn' = M.ppbtn
    /\ system' = M.system
    /\ space' = M.space
    /\ clock' = M.clock

\* lines 607-611 and 646-650: both events are cancelled, if there are any,
\* and forgotten
\* faulty variant: the events are cancelled and the references kept
cancel_events_kept(M) ==
    [M EXCEPT !.clock.calculate_loop =
                  IF M.calc_event # "None" THEN @ - 1 ELSE @,
              !.clock.graphic_loop =
                  IF M.draw_event # "None" THEN @ - 1 ELSE @]

\* the code
cancel_events(M) ==
    [M EXCEPT !.clock.calculate_loop =
                  IF M.calc_event # "None" THEN @ - 1 ELSE @,
              !.clock.graphic_loop =
                  IF M.draw_event # "None" THEN @ - 1 ELSE @,
              !.calc_event = "None",
              !.draw_event = "None"]

\* Simulator.play: two new events are scheduled and kept in calc_event and
\* draw_event; the events these referred to stay on the clock
play(M) ==
    [M EXCEPT !.ppbtn = "normal",
              !.paused = FALSE,
              !.calc_event = "ClockEvent",
              !.draw_event = "ClockEvent",
              !.clock.calculate_loop = @ + 1,
              !.clock.graphic_loop = @ + 1]

\* Simulator.pause
pause(M) == [cancel_events([M EXCEPT !.ppbtn = "down"]) EXCEPT !.paused = TRUE]

\* Simulator.stop
stop(M) ==
    [cancel_events(M) EXCEPT !.active = FALSE, !.ppbtn = "normal"]

\* Simulator.begin
begin(M) ==
    [play([M EXCEPT !.active = TRUE,
                    !.system = "GravSystem",
                    !.space = "Widget"])
        EXCEPT !.clock.beginvieweradjust = @ + 1]

\* the guard of the view controls and of delete
in_view(M) == M.active /\ M.space = "Widget"

\* Simulator.translate_origin
translate_origin(M) ==
    IF in_view(M) THEN [M EXCEPT !.xpos = 0, !.ypos = 0] ELSE M

\* how far the view is from the normal one, in steps of the controls
ViewSteps ==
    Abs(xpos) \div move_step + Abs(ypos) \div move_step
    + Abs(scale) + Abs(rotation) \div turn_step

\* the system with no body, before GravityAppUI.run constructs the planets
NewSystem ==
    [bodies |-> <<>>, all |-> <<>>, collided |-> <<>>, runaway |-> <<>>,
     totalpts |-> 0, snap |-> <<>>, upd |-> <<>>, kicks |-> <<>>,
     ovf |-> <<>>, merges |-> <<>>, overlaps |-> <<>>, trailed |-> <<>>,
     call |-> 1, exc |-> "none"]

\* GravityAppUI.run, lines 1292-1296: `for p in planets`, with i the number
\* of planets constructed
RECURSIVE planets_loop(_, _, _)
planets_loop(S, planets, i) ==
    IF i >= Len(planets) THEN S
    ELSE planets_loop(PlanetObject(S, planets[i + 1].m, planets[i + 1].x, 0,
                                   planets[i + 1].vx, 0, 1,
                                   planets[i + 1].trail),
                      planets, i + 1)

\* GravityAppUI.run: a new system is made from the settings, the simulation
\* that runs is stopped, the planets are constructed and the simulation of
\* the new system begins
Run ==
    /\ runs < MaxRuns
    /\ runs' = runs + 1
    /\ \E sc \in Scenarios :
         /\ Constructed(planets_loop(NewSystem, sc.planets, 0))
         /\ collisions' = sc.collision
         /\ tpdist' = sc.tpdist
    /\ collided' = <<>>
    /\ runaway' = <<>>
    /\ totalpts' = 0
    /\ calc_num' = 0
    /\ simtime' = 0
    /\ calls' = 0
    /\ sumdelta' = 0
    /\ raised' = "none"
    /\ startAll' = <<>>
    /\ nStart' = 0
    /\ upd' = <<>>
    /\ kicks' = <<>>
    /\ ovf' = <<>>
    /\ merges' = <<>>
    /\ overlaps' = <<>>
    /\ trailed' = <<>>
    /\ Handled(begin(stop(TheSimulator)))
    /\ UNCHANGED polarvars

\* Simulator._beginvieweradjust, called once by the clock after begin
beginvieweradjust ==
    /\ clock.beginvieweradjust > 0
    /\ Handled([translate_origin(TheSimulator)
                   EXCEPT !.clock.beginvieweradjust = @ - 1,
                          !.xpos = ini_x,
                          !.ypos = ini_y,
                          !.scale = 0,
                          !.rotation = ini_r])
    /\ UNCHANGED <<gravvars, runs, polarvars>>

\* Simulator.calculate_loop, called by the clock for an event scheduled by
\* play: the system is updated, whatever the update raises is caught, and
\* the simulation stops when no body is left in system.all
calculate_loop ==
    /\ clock.calculate_loop > 0
    /\ calls < MaxTicks
    /\ GravSystem_update
    /\ Handled(IF Len(all') = 0 THEN stop(TheSimulator) ELSE TheSimulator)
    /\ UNCHANGED <<runs, polarvars>>

\* Simulator.playpause(state)
playpause ==
    /\ \E state \in {"down", "normal"} :
         Handled(IF ~active THEN TheSimulator
                 ELSE IF state = "down" THEN pause(TheSimulator)
                 ELSE play(TheSimulator))
    /\ clock'.calculate_loop <= MaxEvents
    /\ UNCHANGED <<gravvars, runs, polarvars>>

\* Simulator.showhidedata(state)
showhidedata ==
    /\ \E state \in {"down", "normal"} :
         Handled([TheSimulator EXCEPT !.infovis = (state = "down")])
    /\ UNCHANGED <<gravvars, runs, polarvars>>

\* Simulator.stop, from the stop button
StopButton ==
    /\ Handled(stop(TheSimulator))
    /\ UNCHANGED <<gravvars, runs, polarvars>>

\* GravityApp.on_pause
on_pause ==
    /\ Handled(IF active THEN pause(TheSimulator) ELSE TheSimulator)
    /\ UNCHANGED <<gravvars, runs, polarvars>>

\* Simulator.screenshot, with auto the setting app/autosc
screenshot ==
    /\ \E auto \in BOOLEAN :
         Handled(IF active /\ ~auto THEN pause(TheSimulator)
                 ELSE TheSimulator)
    /\ UNCHANGED <<gravvars, runs, polarvars>>

\* Simulator._changesystemoffset, with the position the drag came to
changesystemoffset ==
    /\ \E to \in Drags :
         Handled(IF system # "None"
                 THEN [TheSimulator EXCEPT !.xpos = to[1], !.ypos = to[2]]
                 ELSE TheSimulator)
    /\ UNCHANGED <<gravvars, runs, polarvars>>

\* a view control: Simulator.translate_*, zoom_*, rotate_*; the simulator
\* is left as M
ViewControl(M) ==
    /\ Handled(IF in_view(TheSimulator) THEN M ELSE TheSimulator)
    /\ UNCHANGED <<gravvars, runs, polarvars>>

Translate_origin == ViewControl(translate_origin(TheSimulator))

translate_left ==
    /\ ViewSteps < MaxView \/ xpos < 0
    /\ ViewControl([TheSimulator EXCEPT !.xpos = @ + move_step])

translate_right ==
    /\ ViewSteps < MaxView \/ xpos > 0
    /\ ViewControl([TheSimulator EXCEPT !.xpos = @ - move_step])

translate_up ==
    /\ ViewSteps < MaxView \/ ypos > 0
    /\ ViewControl([TheSimulator EXCEPT !.ypos = @ - move_step])

translate_down ==
    /\ ViewSteps < MaxView \/ ypos < 0
    /\ ViewControl([TheSimulator EXCEPT !.ypos = @ + move_step])

zoom_in ==
    /\ ViewSteps < MaxView \/ scale < 0
    /\ ViewControl([TheSimulator EXCEPT !.scale = @ + 1])

zoom_out ==
    /\ ViewSteps < MaxView \/ scale > 0
    /\ ViewControl([TheSimulator EXCEPT !.scale = @ - 1])

zoom_normal == ViewControl([TheSimulator EXCEPT !.scale = 0])

rotate_cw ==
    /\ ViewSteps < MaxView \/ rotation > 0
    /\ ViewControl([TheSimulator EXCEPT !.rotation = @ - turn_step])

rotate_anticw ==
    /\ ViewSteps < MaxView \/ rotation < 0
    /\ ViewControl([TheSimulator EXCEPT !.rotation = @ + turn_step])

rotate_normal == ViewControl([TheSimulator EXCEPT !.rotation = 0])

\* Simulator.delete, lines 726-727 and 729-730: the trail of one body
\* faulty variant: every point is erased
last_points_none(positions) == <<>>

\* the code
last_points(positions) ==
    IF Len(positions) > 4
    THEN SubSeq(positions, Len(positions) - 3, Len(positions))
    ELSE positions

\* Simulator.delete: the trails of the bodies in the three lists are cut
delete ==
    /\ bodies' = IF in_view(TheSimulator)
                 THEN [b \in DOMAIN bodies |->
                          IF Contains(collided \o runaway \o all, b)
                          THEN [bodies[b] EXCEPT
                                   !.positions = last_points(@)]
                          ELSE bodies[b]]
                 ELSE bodies
    /\ UNCHANGED <<all, collided, runaway, totalpts, calc_num, simtime,
                   collisions, tpdist, calls, sumdelta, raised, startAll,
                   nStart, upd, kicks, ovf, merges, overlaps, trailed, built,
                   snap, simvars, polarvars>>

NextSim ==
    \/ Run
    \/ beginvieweradjust
    \/ calculate_loop
    \/ playpause
    \/ showhidedata
    \/ StopButton
    \/ on_pause
    \/ screenshot
    \/ changesystemoffset
    \/ Translate_origin
    \/ translate_left
    \/ translate_right
    \/ translate_up
    \/ translate_down
    \/ zoom_in
    \/ zoom_out
    \/ zoom_normal
    \/ rotate_cw
    \/ rotate_anticw
    \/ rotate_normal
    \/ delete

SpecSim == Init /\ [][NextSim]_vars

\* ----------------------------------------------------------- to_polar
\* the spacing of the representable angles, in degrees
AngleUnit == 45

Coords == -MaxCoord..MaxCoord

\* math.degrees(math.atan(y/x)) for x # 0, rounded to the nearest
\* representable angle.  |atan t| < 22.5 iff |t| < sqrt(2) - 1 and
\* |atan t| > 67.5 iff |t| > sqrt(2) + 1; with t = y/x both are compared
\* in integers, and no ratio of integers meets either limit.
atan_degrees(y, x) ==
    LET s == IF (y < 0) = (x < 0) THEN 1 ELSE -1
    IN IF (Abs(y) + Abs(x)) * (Abs(y) + Abs(x)) < 2 * x * x THEN 0
       ELSE IF Abs(y) > Abs(x)
               /\ (Abs(y) - Abs(x)) * (Abs(y) - Abs(x)) > 2 * x * x
            THEN s * 2 * AngleUnit
            ELSE s * AngleUnit

\* to_polar(x, y), lines 49-56: the magnitude and the angle in degrees
to_polar(x, y) ==
    LET a == IF x # 0 THEN atan_degrees(y, x) ELSE 90
    IN <<hypot(x, y),
         IF x < 0 THEN a + 180
         ELSE IF x = 0 /\ y < 0 THEN 270
         ELSE IF x > 0 /\ y < 0 THEN a + 360
         ELSE a>>

\* a caller is about to convert the point (px, py)
InitPolar ==
    /\ GravSystem
    /\ Simulator
    /\ px \in Coords
    /\ py \in Coords
    /\ polar = <<>>

\* the call to_polar(px, py) returns
ToPolar ==
    /\ polar = <<>>
    /\ polar' = to_polar(px, py)
    /\ UNCHANGED <<px, py, gravvars, simvars>>

NextPolar == ToPolar

SpecPolar == InitPolar /\ [][NextPolar]_vars

\* ---------------------------------------------------------- properties
Ids == 1..Len(bodies)

InAll(b) == Contains(all, b)

InCollided(b) == Contains(collided, b)

InRunaway(b) == Contains(runaway, b)

IsPrefix(s, t) == Len(s) <= Len(t) /\ SubSeq(t, 1, Len(s)) = s

\* C1: after any sequence of constructions and GravSystem.update calls,
\* aborted calls included, every body ever constructed occurs exactly once
\* in exactly one of system.all, system.collided and system.runaway, and the
\* three lists hold nothing else.
C1_ExactlyOneList ==
    /\ \A b \in Ids : Count(all, b) + Count(collided, b) + Count(runaway, b) = 1
    /\ Range(all) \cup Range(collided) \cup Range(runaway) \subseteq Ids

\* C1 witness: the last call caught an overflow for one body, merged two
\* others and was then aborted by an exception, leaving bodies in all three
\* lists.
C1_Witness ==
    /\ collided # <<>>
    /\ runaway # <<>>
    /\ all # <<>>
    /\ ovf # <<>>
    /\ raised # "none"

\* C2 (as claimed): in a call that returns, no body is updated twice, and
\* every body that was in system.all when the call started and is still
\* there when it returns (so was never removed) was updated exactly once.
C2_EveryBodyUpdatedOnce ==
    (calls > 0 /\ raised = "none") =>
        \A b \in Range(startAll) :
            /\ Count(upd, b) <= 1
            /\ InAll(b) => Count(upd, b) = 1

\* C3 (as claimed): PlanetObject.update is not invoked on a body in the call
\* whose merge created it.
C3_MergedBodyWaits ==
    \A b \in Ids : b > nStart => ~Contains(upd, b)

\* C4 (as claimed): no exception leaves GravSystem.update.
C4_NoExceptionEscapes == raised = "none"

\* C5 (as claimed): after n calls calc_num = n and simtime is the sum of the
\* n deltas passed.
C5_CountersFollowCalls == calc_num = calls /\ simtime = sumdelta

\* C6: body status is one-way.  A body constructed by the caller starts in
\* system.all; a body created by a merge is in system.all unless the same
\* call has already retired it; system.collided and system.runaway only
\* grow at the end; a body that is in one of them never enters system.all
\* again and is never in the other one.
C6_Step ==
    /\ IsPrefix(collided, collided')
    /\ IsPrefix(runaway, runaway')
    /\ \A b \in Range(collided) \cup Range(runaway) : ~Contains(all', b)
    /\ \A b \in Range(collided') : ~Contains(runaway', b) /\ ~Contains(all', b)
    /\ \A b \in Range(runaway') : ~Contains(all', b)
    /\ \A b \in (Len(bodies) + 1)..Len(bodies') :
           Contains(all', b) \/ (calls' # calls /\ snap'[b] # {})

C6_OneWay == [][C6_Step]_vars

\* C6 witness: a second call was made on a system in which the first call
\* had left a body in system.collided and a body in system.runaway.
C6_Witness ==
    /\ calls = 2
    /\ \E b \in Range(collided) : \E s \in snap[b] : s.call = 1
    /\ \E b \in Range(runaway) : \E s \in snap[b] : s.call = 1
    /\ upd # <<>>

\* C7 (as claimed): every velocity kick of the first GravSystem.update call
\* is (dt/2)*a and every kick of a later call is dt*a.
C7_HalfKickOnlyInFirstCall ==
    \A i \in 1..Len(kicks) :
        LET k == kicks[i]
            c == IF calls = 1 THEN Quot(k.dt, 2) ELSE k.dt
        IN k.dvx = c * k.ax /\ k.dvy = c * k.ay

\* C8 (as claimed): after a GravSystem.update call that returns, no body in
\* system.all lies outside the bound.
C8_NoActiveBodyOutside ==
    (calls > 0 /\ raised = "none") =>
        \A b \in Range(all) :
            Abs(bodies[b].x) <= bound /\ Abs(bodies[b].y) <= bound

\* C9: once a body is in system.runaway, PlanetObject.update is never
\* invoked on it again and its x, y, vx, vy, ax, ay and positions stay as
\* they were when it was moved there.
C9_Step ==
    /\ \A b \in Range(runaway) :
           /\ Kin(bodies'[b]) = Kin(bodies[b])
           /\ calls' # calls => ~Contains(upd', b)
    /\ \A b \in Range(runaway') :
           /\ \A s \in snap'[b] : s.kin = Kin(bodies'[b])
           /\ Count(upd', b) <= 1

C9_EscapedFrozen == [][C9_Step]_vars

\* C9 witness: a second call ran updates on a system holding a body that
\* the first call had moved to system.runaway.
C9_Witness ==
    /\ calls = 2
    /\ upd # <<>>
    /\ kicks # <<>>
    /\ \E b \in Range(runaway) : \E s \in snap[b] : s.call = 1

x0(b) == bodies[b].positions[1][1]

y0(b) == bodies[b].positions[1][2]

\* q is n / m as the program's division returns it: on the grid, the
\* quotient rounded towards zero, so q * m is off n by less than m (m > 0)
IsQuotient(q, n, m) ==
    IF n >= 0 THEN q * m <= n /\ n < (q + 1) * m
    ELSE q * m >= n /\ n > (q - 1) * m

\* C11 (as claimed): with collisions enabled and vf = 1, when the system
\* holds exactly two bodies, at rest and no further apart than
\* rf * (r1 + r2), then after one GravSystem.update call system.all holds
\* exactly one body, of mass m1 + m2, at the centre of mass of the two
\* starting points, with velocity (0, 0), and both original bodies are in
\* system.collided.
C11_TwoBodyMerge ==
    (/\ calls = 1
     /\ nStart = 2
     /\ collisions
     /\ vf = 1
     /\ hypot_le(x0(1) - x0(2), y0(1) - y0(2),
                 rf * (bodies[1].radius + bodies[2].radius)))
    => /\ Len(all) = 1
       /\ InCollided(1)
       /\ InCollided(2)
       /\ bodies[all[1]].mass = bodies[1].mass + bodies[2].mass
       /\ bodies[all[1]].mass > 0
       /\ IsQuotient(bodies[all[1]].x,
                     bodies[1].mass * x0(1) + bodies[2].mass * x0(2),
                     bodies[all[1]].mass)
       /\ IsQuotient(bodies[all[1]].y,
                     bodies[1].mass * y0(1) + bodies[2].mass * y0(2),
                     bodies[all[1]].mass)
       /\ bodies[all[1]].vx = 0
       /\ bodies[all[1]].vy = 0

\* the collide calls of the last call that constructed a body
Merged == {i \in 1..Len(merges) : merges[i].new # 0}

\* C12: the mass of the body a collide call constructs is exactly the sum of
\* the masses of the two bodies it merged, and stays so.
C12_MassConserved ==
    \A i \in Merged :
        /\ merges[i].made[1].mass = merges[i].a.mass + merges[i].b.mass
        /\ bodies[merges[i].new].mass = merges[i].a.mass + merges[i].b.mass

\* C12 witness: the last call merged two bodies of different mass, and
\* merged a body that a merge had made.
C12_Witness ==
    /\ \E i \in Merged : merges[i].a.mass # merges[i].b.mass
    /\ \E i \in Merged : merges[i].self > MaxInit \/ merges[i].other > MaxInit

Min(a, b) == IF a <= b THEN a ELSE b

Between(p, a, b) == Min(a, b) <= p /\ p <= Max(a, b)

\* C13: the velocity v of the body a collide call constructs satisfies, in
\* each component, v * (m1 + m2) = vf * (m1 * v1 + m2 * v2) up to the
\* rounding of the one division that computes v, where m1, v1 and m2, v2
\* are the masses and velocities of the two bodies when collide was called.
C13_MomentumScaled ==
    \A i \in Merged :
        /\ IsQuotient(merges[i].made[1].vx,
                      vf * (merges[i].a.mass * merges[i].a.vx
                            + merges[i].b.mass * merges[i].b.vx),
                      merges[i].a.mass + merges[i].b.mass)
        /\ IsQuotient(merges[i].made[1].vy,
                      vf * (merges[i].a.mass * merges[i].a.vy
                            + merges[i].b.mass * merges[i].b.vy),
                      merges[i].a.mass + merges[i].b.mass)

\* C13 witness: the last call merged two bodies of different mass and
\* different velocity into a moving body.
C13_Witness ==
    \E i \in Merged :
        /\ merges[i].a.mass # merges[i].b.mass
        /\ merges[i].a.vx # merges[i].b.vx
        /\ merges[i].made[1].vx # 0

\* C14: the position p of the body a collide call constructs satisfies, in
\* each coordinate, p * (m1 + m2) = m1 * p1 + m2 * p2 up to the rounding of
\* the one division that computes p, and lies between p1 and p2, where
\* m1, p1 and m2, p2 are the masses and positions of the two bodies when
\* collide was called.
C14_CentreOfMass ==
    \A i \in Merged :
        /\ IsQuotient(merges[i].made[1].x,
                      merges[i].a.mass * merges[i].a.x
                      + merges[i].b.mass * merges[i].b.x,
                      merges[i].a.mass + merges[i].b.mass)
        /\ IsQuotient(merges[i].made[1].y,
                      merges[i].a.mass * merges[i].a.y
                      + merges[i].b.mass * merges[i].b.y,
                      merges[i].a.mass + merges[i].b.mass)
        /\ Between(merges[i].made[1].x, merges[i].a.x, merges[i].b.x)
        /\ Between(merges[i].made[1].y, merges[i].a.y, merges[i].b.y)

\* C14 witness: the last call merged two bodies of different mass that were
\* at different points, into a body away from the origin.
C14_Witness ==
    \E i \in Merged :
        /\ merges[i].a.mass # merges[i].b.mass
        /\ merges[i].a.x # merges[i].b.x
        /\ merges[i].made[1].x # 0

\* the force calls of the last call that found two bodies at one point with
\* one velocity, and triggered no merge
Coinciding ==
    {i \in 1..Len(overlaps) :
        /\ overlaps[i].a.x = overlaps[i].b.x
        /\ overlaps[i].a.y = overlaps[i].b.y
        /\ overlaps[i].a.vx = overlaps[i].b.vx
        /\ overlaps[i].a.vy = overlaps[i].b.vy}

Velocity(o) == <<o.vx, o.vy>>

\* C15 (as claimed): force called for two bodies at one point with one
\* velocity, when it triggers no merge, returns (0, 0), raises nothing and
\* changes the velocity of exactly one of the two bodies, in one component.
C15_OneBodyNudged ==
    \A i \in Coinciding :
        /\ overlaps[i].fx = 0
        /\ overlaps[i].fy = 0
        /\ overlaps[i].exc = "none"
        /\ (Velocity(overlaps[i].a2) # Velocity(overlaps[i].a))
               # (Velocity(overlaps[i].b2) # Velocity(overlaps[i].b))

\* C15 (amended): such a call returns (0, 0), raises nothing, adds 1 to
\* self.vx and 1 to other.vy, and changes nothing else of the two bodies.
C15_BothBodiesShifted ==
    \A i \in Coinciding :
        /\ overlaps[i].fx = 0
        /\ overlaps[i].fy = 0
        /\ overlaps[i].exc = "none"
        /\ overlaps[i].a2 = [overlaps[i].a EXCEPT !.vx = @ + 1]
        /\ overlaps[i].b2 = [overlaps[i].b EXCEPT !.vy = @ + 1]

\* C15 witness: in the last call force met two coinciding bodies at rest,
\* and the shift has taken the other one off the x axis since.
C15_Witness ==
    \E i \in Coinciding :
        /\ Velocity(overlaps[i].a) = <<0, 0>>
        /\ Velocity(overlaps[i].a2) # <<0, 0>>
        /\ bodies[overlaps[i].other].y # 0

\* the bodies that left system.all in the last call
LeftInLastCall == {b \in Ids : \E s \in snap[b] : s.call = calls}

\* C16 (as claimed): a body whose PlanetObject.update caught an
\* OverflowError ends in system.runaway and not in system.all, the handler
\* lets no exception out, and the other bodies of the pass are still
\* updated: when the call returns and only such bodies have left
\* system.all, every body that is still there was updated.
C16_OverflowContained ==
    /\ \A i \in 1..Len(ovf) : InRunaway(ovf[i]) /\ ~InAll(ovf[i])
    /\ (/\ ovf # <<>>
        /\ raised = "none"
        /\ LeftInLastCall \subseteq Range(ovf))
       => \A b \in Range(startAll) : InAll(b) => Contains(upd, b)

\* C17 (as claimed): every body has mass > 0, whatever mass the constructor
\* was passed.
C17_MassPositive == \A b \in Ids : bodies[b].mass > 0

\* C18: has_collided is True exactly for the bodies in system.collided (so
\* it is False for every body in system.all and in system.runaway), and a
\* flag that is True stays True.
C18_Step ==
    /\ \A b \in 1..Len(bodies') :
           bodies'[b].has_collided <=> Contains(collided', b)
    /\ \A b \in Ids : bodies[b].has_collided => bodies'[b].has_collided

C18_FlagMatchesList == [][C18_Step]_vars

\* C18 witness: after a second call, which merged two bodies, all three
\* lists hold bodies.
C18_Witness ==
    /\ calls = 2
    /\ Merged # {}
    /\ all # <<>>
    /\ collided # <<>>
    /\ runaway # <<>>

\* C19: every collide(self, other) call made in a GravSystem.update call
\* finds self and other distinct, both in system.all and both with
\* has_collided False; so no body is merged twice, and one
\* PlanetObject.update invocation makes at most one collide call.
C19_CollidePreconditions ==
    /\ \A i \in 1..Len(merges) :
           /\ merges[i].self # merges[i].other
           /\ merges[i].selfIn
           /\ merges[i].otherIn
           /\ ~merges[i].a.has_collided
           /\ ~merges[i].b.has_collided
    /\ \A i, j \in 1..Len(merges) :
           i # j => /\ {merges[i].self, merges[i].other}
                          \cap {merges[j].self, merges[j].other} = {}
                    /\ merges[i].by # merges[j].by
    /\ \A b \in Ids : Count(collided, b) <= 1

\* C19 witness: in the last call a body that had just merged met, later in
\* the same force loop, a body at its own position, and did not merge again.
C19_Witness ==
    \E i \in 1..Len(overlaps) :
        /\ overlaps[i].a.has_collided
        /\ \E j \in Merged : /\ merges[j].self = overlaps[i].self
                              /\ merges[j].by = Len(upd)

\* C20 (as claimed): a body in system.collided has the x, y, vx, vy and
\* positions it had when collide moved it there.
C20_CollidedFrozen ==
    \A b \in Range(collided) :
        \A s \in snap[b] :
            /\ s.kin.x = bodies[b].x
            /\ s.kin.y = bodies[b].y
            /\ s.kin.vx = bodies[b].vx
            /\ s.kin.vy = bodies[b].vy
            /\ s.kin.positions = bodies[b].positions

\* what a GravSystem.update call made of the bodies the caller constructed
\* (1..n), read from the system S it left: who merged, who escaped, where
\* the others are, and the bodies the merges made
Outcome(S, n) ==
    [merged |-> Range(S.collided) \cap 1..n,
     escaped |-> Range(S.runaway) \cap 1..n,
     survivors |-> {<<b, S.bodies[b].x, S.bodies[b].y,
                      S.bodies[b].vx, S.bodies[b].vy>> :
                        b \in Range(S.all) \cap 1..n},
     made |-> {<<S.bodies[b].mass, S.bodies[b].x, S.bodies[b].y,
                 S.bodies[b].vx, S.bodies[b].vy>> :
                   b \in Range(S.all) \ 1..n}]

\* the system with system.all reordered by p
Reordered(p) == [TheSystem EXCEPT !.all = [i \in 1..Len(all) |-> p[all[i]]]]

\* C21 (as claimed): one GravSystem.update call makes the same of the same
\* bodies whatever their order in system.all: the same bodies merge, the
\* same escape, and the others end with the same position and velocity.
C21_OrderIndependent ==
    calls = 0 =>
        \A delta \in Deltas : \A p \in Permutations(Range(all)) :
            Outcome(pass_loop(Reordered(p), 0, delta), Len(bodies))
                = Outcome(pass_loop(TheSystem, 0, delta), Len(bodies))

\* C22 (as claimed): a trail step appends a point, and counts it in
\* totalpts, exactly when trail # 0 and the body is further than tpdist
\* from its last trail point; a body that has not moved since that point
\* gets no point.
C22_PointBeyondTpdist ==
    \A i \in 1..Len(trailed) :
        /\ trailed[i].appended
             <=> (/\ trailed[i].trail # 0
                  /\ ~hypot_le(trailed[i].dx, trailed[i].dy, tpdist))
        /\ trailed[i].counted = IF trailed[i].appended THEN 1 ELSE 0
        /\ (trailed[i].dx = 0 /\ trailed[i].dy = 0) => ~trailed[i].appended

\* C22 (amended): a trail step appends a point, and counts it in totalpts,
\* exactly when trail # 0 and the body is at least
\* tpdist from its last trail point; so a body that has not moved since
\* that point gets a point exactly when trail # 0 and tpdist <= 0.
C22_PointFromTpdist ==
    \A i \in 1..Len(trailed) :
        /\ trailed[i].appended
             <=> (/\ trailed[i].trail # 0
                  /\ hypot_ge(trailed[i].dx, trailed[i].dy, tpdist))
        /\ trailed[i].counted = IF trailed[i].appended THEN 1 ELSE 0
        /\ (trailed[i].dx = 0 /\ trailed[i].dy = 0)
             => (trailed[i].appended <=> trailed[i].trail # 0 /\ tpdist <= 0)

\* C22 witness: in the last call, at tpdist 0, a body that had not moved
\* since its last trail point got a point, and so did a body that had.
C22_Witness ==
    /\ tpdist = 0
    /\ \E i \in 1..Len(trailed) :
           /\ trailed[i].dx = 0
           /\ trailed[i].dy = 0
           /\ trailed[i].appended
    /\ \E i \in 1..Len(trailed) :
           /\ trailed[i].dx # 0
           /\ trailed[i].appended

\* the number of trail points held by the first n bodies constructed
RECURSIVE Retained(_)
Retained(n) ==
    IF n = 0 THEN 0 ELSE Len(bodies[n].positions) + Retained(n - 1)

\* C23 (as claimed): system.totalpts is the number of trail points held in
\* the positions lists of all the bodies of the system, in system.all,
\* system.collided and system.runaway.
C23_TotalptsCountsPoints == totalpts = Retained(Len(bodies))

\* the sum of the masses of the bodies listed in s
RECURSIVE ListMass(_)
ListMass(s) ==
    IF s = <<>> THEN 0 ELSE bodies[Head(s)].mass + ListMass(Tail(s))

\* the sum of the masses of the first n bodies constructed
RECURSIVE BuiltMass(_)
BuiltMass(n) == IF n = 0 THEN 0 ELSE bodies[n].mass + BuiltMass(n - 1)

\* C27: the masses of the bodies in system.all and system.runaway add up to
\* the masses of the bodies the caller constructed; the bodies in
\* system.collided are not counted.
C27_TotalMassConserved == ListMass(all) + ListMass(runaway) = BuiltMass(built)

\* C27 witness: after two calls a body made by a merge is in system.all or
\* system.runaway, system.runaway holds a body, and system.collided holds
\* the merged ones.
C27_Witness ==
    /\ calls = 2
    /\ \E b \in Range(all) \cup Range(runaway) : b > built
    /\ runaway # <<>>
    /\ collided # <<>>
    /\ ListMass(collided) > 0

\* C28: len(all) + len(runaway) + len(collided)/2 is the number of bodies
\* the caller constructed, len(collided) is even, a GravSystem.update call
\* never lengthens system.all, and the merges made over the run (one body
\* constructed by each) number at most one fewer than the bodies the caller
\* constructed.
C28_Step ==
    /\ 2 * Len(all') + 2 * Len(runaway') + Len(collided') = 2 * built'
    /\ Len(collided') % 2 = 0
    /\ calls' # calls => Len(all') <= Len(all)
    /\ built' > 0 => /\ Len(bodies') - built' <= built' - 1
                     /\ Len(collided') <= 2 * (built' - 1)

C28_BodyCount == [][C28_Step]_vars

\* C28 witness: the last call merged two bodies, shortening system.all, in
\* a system of three bodies of which one has escaped.
C28_Witness ==
    /\ built = 3
    /\ Len(collided) = 2
    /\ Len(runaway) >= 1
    /\ Len(bodies) = built + 1
    /\ Len(all) < Len(startAll)
    /\ Merged # {}

\* C24: calc_event and draw_event are both clock events exactly when the
\* simulation is active and not paused, and both None whenever it is paused
\* or not active.
C24_EventsWhilePlaying ==
    /\ calc_event # "None" <=> (active /\ ~paused)
    /\ draw_event # "None" <=> (active /\ ~paused)

\* C24 witness: in the second run of the simulator, paused after the system
\* was updated, with no event kept.
C24_Witness ==
    /\ runs = 2
    /\ calls > 0
    /\ active
    /\ paused
    /\ calc_event = "None"
    /\ draw_event = "None"
    /\ clock.calculate_loop = 0

\* C25 (as claimed): after Simulator.stop, until the next begin, a control
\* (playpause, showhidedata, translate_*, zoom_*, rotate_*, delete,
\* screenshot, the drag handler) changes none of active, paused, infovis,
\* xpos, ypos, calc_event, draw_event and the bodies.  Steps of the clock's
\* own callbacks are set aside: nothing is on the clock.
C25_Step ==
    (/\ runs > 0
     /\ ~active
     /\ ~active'
     /\ clock.calculate_loop = 0
     /\ clock.beginvieweradjust = 0)
    => UNCHANGED <<active, paused, infovis, xpos, ypos, calc_event,
                   draw_event, bodies>>

C25_ControlsDeadAfterStop == [][C25_Step]_vars

Motion(bs) == [b \in DOMAIN bs |-> [bs[b] EXCEPT !.positions = <<>>]]

\* C30 (as claimed): at most one calculate_loop event is scheduled at a
\* time, and from a pause or stop to the next play or begin the system's
\* calc_num, simtime and bodies do not change.
C30_Step ==
    /\ clock'.calculate_loop <= 1
    /\ ((~active \/ paused) /\ (~active' \/ paused'))
       => /\ calc_num' = calc_num
          /\ simtime' = simtime
          /\ Motion(bodies') = Motion(bodies)

C30_NoUpdateWhilePaused == [][C30_Step]_vars

\* C26 (as claimed): to_polar returns an angle in [0, 360) that lies in the
\* quadrant of (x, y): [0, 90) for x > 0 and y >= 0, 90 for x = 0 and
\* y >= 0, (90, 270) for x < 0, 270 for x = 0 and y < 0, (270, 360) for
\* x > 0 and y < 0.
C26_AngleInQuadrant ==
    polar # <<>> =>
        /\ 0 <= polar[2] /\ polar[2] < 360
        /\ (px > 0 /\ py >= 0) => (0 <= polar[2] /\ polar[2] < 90)
        /\ (px = 0 /\ py >= 0) => polar[2] = 90
        /\ px < 0 => (90 < polar[2] /\ polar[2] < 270)
        /\ (px = 0 /\ py < 0) => polar[2] = 270
        /\ (px > 0 /\ py < 0) => (270 < polar[2] /\ polar[2] < 360)
====
